---------------------------- MODULE Spec2Model ----------------------------
(***************************************************************************)
(* Model of the endon ingestor (src/ingestor/server.go, functions.go):     *)
(* the startup sequence of main and the POST / handler, which validates a  *)
(* JSON error report and writes it as one point to the timeseries store.   *)
(* Each request is handled by its own goroutine; the handler's statements  *)
(* are the steps of a per-request program counter.                         *)
(***************************************************************************)
EXTENDS Integers, Sequences, FiniteSets, TLC

\* ------------------------------------------------------------------ bounds
\* Number of requests handled concurrently in the specification Spec.
NumRequests == 2
\* Largest reading of the wall clock (time.Now()); the clock stops there.
MaxClock == 1

\* --------------------------------------------------------- program constants
StatusOK == 200
StatusBadRequest == 400
StatusUnsupportedMediaType == 415
StatusInternalServerError == 500

\* The four environment variables main reads through safeEnv.
EnvVars ==
    {"DOCKER_INFLUXDB_TOKEN", "DOCKER_INFLUXDB_HOST",
     "DOCKER_INFLUXDB_ORGANIZATION", "DOCKER_INFLUXDB_BUCKET"}

\* Errors the store client can return from WritePoint; NoErr is Go's nil.
NoErr == "nil"
StoreErrors == {"timeout", "unauthorized"}

\* ------------------------------------------------------------ JSON bodies
\* A JSON value inside an object: a string, null, or a value of another type
\* (number, bool, array, object).
JStr(s) == [t |-> "string", s |-> s]
JNull == [t |-> "null", s |-> ""]
JOther == [t |-> "other", s |-> ""]

\* A request body: not JSON at all, the literal null, a top-level value that
\* is not an object, or an object with its members in wire order.
BodyInvalid == [kind |-> "invalid", members |-> << >>]
BodyNull == [kind |-> "null", members |-> << >>]
BodyScalar == [kind |-> "scalar", members |-> << >>]
BodyObject(ms) == [kind |-> "object", members |-> ms]

Member(k, v) == [key |-> k, val |-> v]

\* A member key is the sequence of its characters, each a one-character
\* string; the two non-ASCII characters that fold to an ASCII letter are
\* written by code point: U+017F (long s) and U+212A (Kelvin sign).
UpperLetters ==
    << "A", "B", "C", "D", "E", "F", "G", "H", "I", "J", "K", "L", "M",
       "N", "O", "P", "Q", "R", "S", "T", "U", "V", "W", "X", "Y", "Z" >>
LowerLetters ==
    << "a", "b", "c", "d", "e", "f", "g", "h", "i", "j", "k", "l", "m",
       "n", "o", "p", "q", "r", "s", "t", "u", "v", "w", "x", "y", "z" >>

\* The json names of ErrorReport's fields (the struct tags).
FieldName(field) ==
    CASE field = "service" -> << "s", "e", "r", "v", "i", "c", "e" >>
      [] field = "endpoint" -> << "e", "n", "d", "p", "o", "i", "n", "t" >>
      [] field = "error" -> << "e", "r", "r", "o", "r" >>
      [] field = "traceback" -> << "t", "r", "a", "c", "e", "b", "a", "c", "k" >>
FieldNames ==
    {FieldName("service"), FieldName("endpoint"), FieldName("error"),
     FieldName("traceback")}

\* Unicode simple case folding of one character, as encoding/json folds
\* keys: an upper-case letter and its lower-case letter are one character,
\* and so are U+017F and s, U+212A and k; any other character is itself.
FoldTable ==
    [c \in {UpperLetters[i] : i \in DOMAIN UpperLetters} \cup {"U+017F", "U+212A"} |->
       CASE c = "U+017F" -> "s"
         [] c = "U+212A" -> "k"
         [] OTHER -> LowerLetters[CHOOSE i \in DOMAIN UpperLetters : UpperLetters[i] = c]]
FoldChar(c) == IF c \in DOMAIN FoldTable THEN FoldTable[c] ELSE c

\* The folded form of a key: two keys match case-insensitively exactly when
\* their folded forms are equal.
FoldKey(k) == [i \in DOMAIN k |-> FoldChar(k[i])]

\* The upper-case letter of a character.
UpperChar(c) ==
    IF \E i \in DOMAIN LowerLetters : LowerLetters[i] = c
    THEN UpperLetters[CHOOSE i \in DOMAIN LowerLetters : LowerLetters[i] = c]
    ELSE c

\* The spellings of member keys the model sends, by spelling style:
\* service, Service, SERVICE, sErViCe, and the spelling with U+017F for s
\* and U+212A for k.
KeySpelling(field, style) ==
    LET n == FieldName(field) IN
    CASE style = "lower" -> n
      [] style = "title" -> [i \in DOMAIN n |-> IF i = 1 THEN UpperChar(n[i]) ELSE n[i]]
      [] style = "upper" -> [i \in DOMAIN n |-> UpperChar(n[i])]
      [] style = "mixed" -> [i \in DOMAIN n |-> IF i % 2 = 0 THEN UpperChar(n[i]) ELSE n[i]]
      [] OTHER -> [i \in DOMAIN n |-> CASE n[i] = "s" -> "U+017F"
                                        [] n[i] = "k" -> "U+212A"
                                        [] OTHER -> n[i]]

\* type ErrorReport; the zero value is what `var report ErrorReport` holds.
ErrorReport(s, e, r, t) ==
    [Service |-> s, Endpoint |-> e, Error |-> r, Traceback |-> t]
ZeroReport == ErrorReport("", "", "", "")

\* encoding/json storing one object member into the struct: the key selects
\* a field by its json name, case-insensitively; an unknown key is skipped;
\* a string is stored, null leaves the field as it is, any other type is an
\* UnmarshalTypeError (decoding goes on, the first error is returned).
StoreMember(d, m) ==
    LET f == FoldKey(m.key) IN
    IF f \notin FieldNames THEN d
    ELSE IF m.val.t = "null" THEN d
    ELSE IF m.val.t = "other" THEN [d EXCEPT !.err = "UnmarshalTypeError"]
    ELSE CASE f = FieldName("service") -> [d EXCEPT !.report.Service = m.val.s]
           [] f = FieldName("endpoint") -> [d EXCEPT !.report.Endpoint = m.val.s]
           [] f = FieldName("error") -> [d EXCEPT !.report.Error = m.val.s]
           [] f = FieldName("traceback") -> [d EXCEPT !.report.Traceback = m.val.s]

RECURSIVE DecodeMembers(_, _)
DecodeMembers(d, ms) ==
    IF ms = << >> THEN d
    ELSE DecodeMembers(StoreMember(d, Head(ms)), Tail(ms))

\* json.Unmarshal(body, &report): the decoded report and the error.
Unmarshal(body) ==
    CASE body.kind = "invalid" -> [report |-> ZeroReport, err |-> "SyntaxError"]
      [] body.kind = "scalar" -> [report |-> ZeroReport, err |-> "UnmarshalTypeError"]
      [] body.kind = "null" -> [report |-> ZeroReport, err |-> NoErr]
      [] OTHER -> DecodeMembers([report |-> ZeroReport, err |-> NoErr], body.members)


\* ------------------------------------------------------------ request inputs
\* A request: the Content-Type header, whether reading the body succeeds
\* (io.ReadAll), and the body.
Request(ct, ok, b) == [ctype |-> ct, readOk |-> ok, body |-> b]

ContentTypes == {"application/json", "text/plain", "application/json; charset=utf-8"}

\* How a field appears in an object body.
MemberFor(field, choice, style) ==
    CASE choice = "absent" -> << >>
      [] choice = "empty" -> << Member(KeySpelling(field, style), JStr("")) >>
      [] choice = "null" -> << Member(KeySpelling(field, style), JNull) >>
      [] choice = "other" -> << Member(KeySpelling(field, style), JOther) >>
      [] OTHER -> << Member(KeySpelling(field, style), JStr(choice)) >>

\* Members appended after the four fields: nothing, an unknown key, or a
\* second "service" member (empty, null or another string).
Trailer(extra) ==
    CASE extra = "none" -> << >>
      [] extra = "unknown" -> << Member(<< "e", "x", "t", "r", "a" >>, JOther) >>
      [] extra = "dupEmpty" -> << Member(FieldName("service"), JStr("")) >>
      [] extra = "dupNull" -> << Member(FieldName("service"), JNull) >>
      [] OTHER -> << Member(FieldName("service"), JStr("svc2")) >>

ObjectBody(cs, ce, cr, ct, st, x) ==
    BodyObject(MemberFor("service", cs, st) \o MemberFor("endpoint", ce, st)
               \o MemberFor("error", cr, st) \o MemberFor("traceback", ct, st)
               \o Trailer(x))

\* Every combination of the fields under the lower-case spelling with every
\* trailer, and under the other spellings with no trailer or an empty
\* lower-case duplicate of service.
ObjectBodies ==
    { ObjectBody(cs, ce, cr, ct, st, x) :
        cs \in {"absent", "empty", "null", "other", "api"},
        ce \in {"absent", "empty", "/v1/x"},
        cr \in {"absent", "empty", "timeout"},
        ct \in {"absent", "empty", "null", "tb"},
        st \in {"lower"},
        x \in {"none", "unknown", "dupEmpty", "dupNull", "dupValue"} }
    \cup
    { ObjectBody(cs, ce, cr, ct, st, x) :
        cs \in {"absent", "empty", "null", "other", "api"},
        ce \in {"absent", "empty", "/v1/x"},
        cr \in {"absent", "empty", "timeout"},
        ct \in {"absent", "empty", "null", "tb"},
        st \in {"title", "upper", "mixed", "unicode"},
        x \in {"none", "dupEmpty"} }

Bodies == {BodyInvalid, BodyNull, BodyScalar} \cup ObjectBodies

\* Inputs of the one-request specification SpecSeq.
Inputs == { Request(ct, ok, b) : ct \in ContentTypes, ok \in BOOLEAN, b \in Bodies }

\* The bodies of the spec's scenarios, and the inputs of the concurrent
\* specification Spec.
ValidBody ==
    BodyObject(<< Member(FieldName("service"), JStr("api")), Member(FieldName("endpoint"), JStr("/v1/x")),
                  Member(FieldName("error"), JStr("timeout")) >>)
ValidBodyTraceback ==
    BodyObject(ValidBody.members \o << Member(FieldName("traceback"), JStr("tb")) >>)
EmptyServiceBody ==
    BodyObject(<< Member(FieldName("service"), JStr("")), Member(FieldName("endpoint"), JStr("/v1/x")),
                  Member(FieldName("error"), JStr("timeout")) >>)
ScenarioInputs ==
    { Request("application/json", TRUE, ValidBody),
      Request("application/json", TRUE, ValidBodyTraceback),
      Request("application/json", TRUE, EmptyServiceBody),
      Request("application/json", TRUE, BodyInvalid),
      Request("application/json", FALSE, ValidBody),
      Request("text/plain", TRUE, ValidBody) }

\* ---------------------------------------------------------------- state
VARIABLES
    env,             \* the environment variables that are present
    mainpc,          \* main's position
    organizationID,  \* the package-level variable set at startup
    routes,          \* routes registered on the echo instance
    clock,           \* the wall clock time.Now() reads
    req,             \* each request's input
    pc,              \* each handler's position
    report,          \* each handler's local `report`
    point,           \* each handler's local `point`
    err,             \* each handler's `err` from WritePoint
    resp,            \* each request's response
    log,             \* each request's logger output (cc.Info, cc.Err)
    writes           \* the WritePoint calls made for each request

vars == << env, mainpc, organizationID, routes, clock, req, pc, report,
           point, err, resp, log, writes >>

Requests == DOMAIN req

NoPoint == [measurement |-> "", tags |-> << >>, fields |-> << >>, ts |-> 0]
NoResp == [status |-> 0, body |-> ""]
Response(status, body) == [status |-> status, body |-> body]

\* The return statements of the handler, named by what they report.
Returns ==
    {"UnsupportedMediaType", "BodyReadError", "UnmarshalError", "MissingFields",
     "WriteError", "OK"}
Done(r) == pc[r] \in Returns

InitFor(R, In, Envs) ==
    /\ env \in Envs
    /\ mainpc = "DOCKER_INFLUXDB_TOKEN"
    /\ organizationID = ""
    /\ routes = {}
    /\ clock = 0
    /\ req \in [R -> In]
    /\ pc = [r \in R |-> "idle"]
    /\ report = [r \in R |-> ZeroReport]
    /\ point = [r \in R |-> NoPoint]
    /\ err = [r \in R |-> NoErr]
    /\ resp = [r \in R |-> NoResp]
    /\ log = [r \in R |-> << >>]
    /\ writes = [r \in R |-> << >>]

\* Spec starts from every environment; SpecSeq from the complete one and
\* from those that lack one variable.
Init == InitFor(1..NumRequests, ScenarioInputs, SUBSET EnvVars)
InitSeq == InitFor({1}, Inputs, {EnvVars} \cup { EnvVars \ {v} : v \in EnvVars })

\* ---------------------------------------------------------------- startup
\* Mutant of safeEnv: the presence test is dropped (os.Getenv for LookupEnv).
safeEnvUnchecked(name) == TRUE

\* safeEnv: returns (TRUE) when the variable is present, log.Fatalf otherwise.
\* Presence is all it asks: a variable set to the empty string passes.
safeEnv(name) == name \in env

\* The statement main reaches after each safeEnv call returns.
AfterEnv(name) ==
    CASE name = "DOCKER_INFLUXDB_TOKEN" -> "DOCKER_INFLUXDB_HOST"
      [] name = "DOCKER_INFLUXDB_HOST" -> "DOCKER_INFLUXDB_ORGANIZATION"
      [] name = "DOCKER_INFLUXDB_ORGANIZATION" -> "DOCKER_INFLUXDB_BUCKET"
      [] OTHER -> "lookup"

handlerVars == << clock, req, pc, report, point, err, resp, log, writes >>

\* TOKEN := safeEnv(...) ... BUCKET := safeEnv(...)
ReadEnv ==
    /\ mainpc \in EnvVars
    /\ mainpc' = IF safeEnv(mainpc) THEN AfterEnv(mainpc) ELSE "fatal"
    /\ UNCHANGED << env, organizationID, routes, handlerVars >>

\* FindOrganizationByName: on error log.Fatal, else organizationID = *org.Id.
LookupOrganization ==
    /\ mainpc = "lookup"
    /\ \E found \in BOOLEAN :
         IF found
         THEN /\ organizationID' = "org-id"
              /\ mainpc' = "register"
         ELSE /\ organizationID' = organizationID
              /\ mainpc' = "fatal"
    /\ UNCHANGED << env, routes, handlerVars >>

\* e.POST("/", handler)
RegisterRoute ==
    /\ mainpc = "register"
    /\ routes' = routes \cup {"POST /"}
    /\ mainpc' = "start"
    /\ UNCHANGED << env, organizationID, handlerVars >>

\* e.Logger.Fatal(e.Start(":80")): the listener binds and serves, or fails.
StartServer ==
    /\ mainpc = "start"
    /\ \E bound \in BOOLEAN : mainpc' = IF bound THEN "serving" ELSE "fatal"
    /\ UNCHANGED << env, organizationID, routes, handlerVars >>

\* The wall clock advances on its own.
Tick ==
    /\ clock < MaxClock
    /\ clock' = clock + 1
    /\ UNCHANGED << env, mainpc, organizationID, routes, req, pc, report,
                    point, err, resp, log, writes >>

\* ---------------------------------------------------------------- handler
mainVars == << env, mainpc, organizationID, routes >>

Info(msg) == [level |-> "INFO", msg |-> msg, arg |-> ""]
Err(msg, arg) == [level |-> "ERROR", msg |-> msg, arg |-> arg]

\* Leave the handler through a return statement: log, respond, stop.
Return(r, where, entry, response) ==
    /\ pc' = [pc EXCEPT ![r] = where]
    /\ log' = [log EXCEPT ![r] = Append(@, entry)]
    /\ resp' = [resp EXCEPT ![r] = response]

\* The server dispatches a request to the route's handler; the middleware
\* builds the request's Context with its own loggers.
Arrive(r) ==
    /\ mainpc = "serving"
    /\ "POST /" \in routes
    /\ pc[r] = "idle"
    /\ pc' = [pc EXCEPT ![r] = "contentType"]
    /\ UNCHANGED << mainVars, clock, req, report, point, err, resp, log, writes >>

\* Mutant of ContentTypeOK: a media type with parameters is accepted too.
ContentTypeOKWithParams(ct) ==
    ct \in {"application/json", "application/json; charset=utf-8"}

ContentTypeOK(ct) == ct = "application/json"

CheckContentType(r) ==
    /\ pc[r] = "contentType"
    /\ IF ~ContentTypeOK(req[r].ctype)
       THEN Return(r, "UnsupportedMediaType",
                   Err("Invalid Content-Type. Expected application/json, got %s",
                       req[r].ctype),
                   Response(StatusUnsupportedMediaType,
                            "Content-Type must be application/json"))
       ELSE /\ pc' = [pc EXCEPT ![r] = "readBody"]
            /\ log' = [log EXCEPT ![r] = Append(@, Info("Attempting ingestion to DB"))]
            /\ resp' = resp
    /\ UNCHANGED << mainVars, clock, req, report, point, err, writes >>

\* Mutant of ReadBody: a read failure is reported as a server error.
ReadBodyServerError(r) ==
    /\ pc[r] = "readBody"
    /\ IF ~req[r].readOk
       THEN Return(r, "BodyReadError",
                   Err("Error reading request body: %v", "read error"),
                   Response(StatusInternalServerError, "Error reading request body"))
       ELSE /\ pc' = [pc EXCEPT ![r] = "unmarshal"]
            /\ UNCHANGED << log, resp >>
    /\ UNCHANGED << mainVars, clock, req, report, point, err, writes >>

\* body, err := io.ReadAll(c.Request().Body)
ReadBody(r) ==
    /\ pc[r] = "readBody"
    /\ IF ~req[r].readOk
       THEN Return(r, "BodyReadError",
                   Err("Error reading request body: %v", "read error"),
                   Response(StatusBadRequest, "Error reading request body"))
       ELSE /\ pc' = [pc EXCEPT ![r] = "unmarshal"]
            /\ UNCHANGED << log, resp >>
    /\ UNCHANGED << mainVars, clock, req, report, point, err, writes >>

\* Mutant of UnmarshalBody: the error of json.Unmarshal is not checked.
UnmarshalBodyUnchecked(r) ==
    /\ pc[r] = "unmarshal"
    /\ report' = [report EXCEPT ![r] = Unmarshal(req[r].body).report]
    /\ pc' = [pc EXCEPT ![r] = "required"]
    /\ UNCHANGED << mainVars, clock, req, point, err, resp, log, writes >>

\* Mutant of UnmarshalBody: `report` is a package-level variable, one for all
\* handlers.
UnmarshalBodyShared(r) ==
    LET d == Unmarshal(req[r].body) IN
    /\ pc[r] = "unmarshal"
    /\ report' = [s \in Requests |-> d.report]
    /\ IF d.err # NoErr
       THEN Return(r, "UnmarshalError",
                   Err("Error unmarshalling JSON: %v", d.err),
                   Response(StatusBadRequest, "Error unmarshalling JSON"))
       ELSE /\ pc' = [pc EXCEPT ![r] = "required"]
            /\ UNCHANGED << log, resp >>
    /\ UNCHANGED << mainVars, clock, req, point, err, writes >>

\* var report ErrorReport; json.Unmarshal(body, &report)
UnmarshalBody(r) ==
    LET d == Unmarshal(req[r].body) IN
    /\ pc[r] = "unmarshal"
    /\ report' = [report EXCEPT ![r] = d.report]
    /\ IF d.err # NoErr
       THEN Return(r, "UnmarshalError",
                   Err("Error unmarshalling JSON: %v", d.err),
                   Response(StatusBadRequest, "Error unmarshalling JSON"))
       ELSE /\ pc' = [pc EXCEPT ![r] = "required"]
            /\ UNCHANGED << log, resp >>
    /\ UNCHANGED << mainVars, clock, req, point, err, writes >>

\* Mutant of MissingRequired: the service field is not checked.
MissingRequiredNoService(rep) == rep.Endpoint = "" \/ rep.Error = ""

MissingRequired(rep) == rep.Service = "" \/ rep.Endpoint = "" \/ rep.Error = ""

CheckRequired(r) ==
    /\ pc[r] = "required"
    /\ IF MissingRequired(report[r])
       THEN Return(r, "MissingFields",
                   Err("Missing required fields in the JSON payload", ""),
                   Response(StatusBadRequest,
                            "Missing required fields in the JSON payload"))
       ELSE /\ pc' = [pc EXCEPT ![r] = "newPoint"]
            /\ UNCHANGED << log, resp >>
    /\ UNCHANGED << mainVars, clock, req, report, point, err, writes >>

\* Mutant of Fields: the traceback is added without the emptiness test.
FieldsAlwaysTraceback(rep) == [error |-> rep.Error, traceback |-> rep.Traceback]

\* The fields map: error always, traceback only when not empty.
Fields(rep) ==
    IF rep.Traceback # ""
    THEN [error |-> rep.Error, traceback |-> rep.Traceback]
    ELSE [error |-> rep.Error]

\* write.NewPoint("error_logs", tags, fields, time.Now())
NewPoint(rep, now) ==
    [measurement |-> "error_logs",
     tags |-> [service |-> rep.Service, endpoint |-> rep.Endpoint],
     fields |-> Fields(rep),
     ts |-> now]

BuildPoint(r) ==
    /\ pc[r] = "newPoint"
    /\ point' = [point EXCEPT ![r] = NewPoint(report[r], clock)]
    /\ pc' = [pc EXCEPT ![r] = "writePoint"]
    /\ UNCHANGED << mainVars, clock, req, report, err, resp, log, writes >>

\* Mutant of WritePoint: a failed write is tried once more.
WritePointRetry(r) ==
    /\ pc[r] = "writePoint"
    /\ \E e \in {NoErr} \cup StoreErrors :
         /\ writes' = [writes EXCEPT ![r] =
                         IF e = NoErr
                         THEN Append(@, [point |-> point[r], err |-> e])
                         ELSE Append(Append(@, [point |-> point[r], err |-> e]),
                                     [point |-> point[r], err |-> NoErr])]
         /\ err' = [err EXCEPT ![r] = NoErr]
    /\ pc' = [pc EXCEPT ![r] = "written"]
    /\ UNCHANGED << mainVars, clock, req, report, point, resp, log >>

\* err := writeAPI.WritePoint(context.Background(), point): one blocking
\* call; the store acknowledges it or returns an error.
WritePoint(r) ==
    /\ pc[r] = "writePoint"
    /\ \E e \in {NoErr} \cup StoreErrors :
         /\ writes' = [writes EXCEPT ![r] = Append(@, [point |-> point[r], err |-> e])]
         /\ err' = [err EXCEPT ![r] = e]
    /\ pc' = [pc EXCEPT ![r] = "written"]
    /\ UNCHANGED << mainVars, clock, req, report, point, resp, log >>

\* Mutant of WriteErrorBody: the store's error is sent to the caller.
WriteErrorBodyLeak(e) == e

\* The body sent with status 500.
WriteErrorBody(e) == "Error writing point to InfluxDB"

\* if err != nil { return 500 }; return 200
Respond(r) ==
    /\ pc[r] = "written"
    /\ IF err[r] # NoErr
       THEN Return(r, "WriteError",
                   Err("Error writing point to InfluxDB: %v", err[r]),
                   Response(StatusInternalServerError, WriteErrorBody(err[r])))
       ELSE /\ pc' = [pc EXCEPT ![r] = "OK"]
            /\ resp' = [resp EXCEPT ![r] = Response(StatusOK, "Error logged")]
            /\ log' = log
    /\ UNCHANGED << mainVars, clock, req, report, point, err, writes >>

Next ==
    \/ ReadEnv
    \/ LookupOrganization
    \/ RegisterRoute
    \/ StartServer
    \/ Tick
    \/ \E r \in Requests : Arrive(r)
    \/ \E r \in Requests : CheckContentType(r)
    \/ \E r \in Requests : ReadBody(r)
    \/ \E r \in Requests : UnmarshalBody(r)
    \/ \E r \in Requests : CheckRequired(r)
    \/ \E r \in Requests : BuildPoint(r)
    \/ \E r \in Requests : WritePoint(r)
    \/ \E r \in Requests : Respond(r)

\* Spec: NumRequests requests handled concurrently, drawn from the scenario
\* inputs.  SpecSeq: one request drawn from the whole input space.
Spec == Init /\ [][Next]_vars
SpecSeq == InitSeq /\ [][Next]_vars

\* ================================================================== claims
\* What the claims speak of, stated on the request itself.
Decoded(q) == Unmarshal(q.body)
RequiredPresent(rep) == rep.Service # "" /\ rep.Endpoint # "" /\ rep.Error # ""
JSONContentType(q) == q.ctype = "application/json"
\* A valid request: JSON Content-Type, readable and decodable body, the three
\* required fields non-empty.
ValidRequest(q) ==
    /\ JSONContentType(q)
    /\ q.readOk
    /\ LET d == Decoded(q) IN d.err = NoErr /\ RequiredPresent(d.report)
\* The points the store has acknowledged.
AllWrites == UNION { { writes[r][i] : i \in DOMAIN writes[r] } : r \in Requests }
Stored == { w.point : w \in { x \in AllWrites : x.err = NoErr } }

\* C1: a request whose body the handler decodes (JSON Content-Type, readable
\* body) and whose decoded report has an empty `service`, `endpoint` or
\* `error` is answered 400 and no point is built or written for it (stated by
\* its contrapositive: a point, a write or another status means the three
\* fields are non-empty); and every point
\* passed to the store carries the three non-empty required fields of the
\* report it was decoded from.
C1_RequiredFields ==
    \A r \in Requests :
      /\ (\/ writes[r] # << >>
          \/ point[r] # NoPoint
          \/ /\ Done(r) /\ JSONContentType(req[r]) /\ req[r].readOk
             /\ resp[r].status # StatusBadRequest)
         => RequiredPresent(Decoded(req[r]).report)
      /\ \A i \in DOMAIN writes[r] :
           LET rep == Decoded(req[r]).report IN
           /\ writes[r][i].point.tags.service = rep.Service
           /\ writes[r][i].point.tags.endpoint = rep.Endpoint
           /\ writes[r][i].point.fields.error = rep.Error

\* C1 witness: a body that decodes without error to a report whose service
\* alone is empty has been rejected by the required-field check.
C1_Witness ==
    \E r \in Requests :
      /\ pc[r] = "MissingFields"
      /\ report[r].Service = ""
      /\ report[r].Endpoint # ""
      /\ report[r].Error # ""
      /\ resp[r].status = StatusBadRequest

\* C3: a request whose Content-Type is not exactly application/json is
\* answered 415 whatever its body; the handler returns at the Content-Type
\* check, before the body is read or decoded, and nothing is written.
C3_ContentTypeFirst ==
    \A r \in Requests :
      ~JSONContentType(req[r]) =>
        /\ pc[r] \in {"idle", "contentType", "UnsupportedMediaType"}
        /\ report[r] = ZeroReport
        /\ point[r] = NoPoint
        /\ writes[r] = << >>
        /\ (Done(r) => resp[r].status = StatusUnsupportedMediaType)

\* C3 witness: an otherwise valid report sent with a charset parameter on the
\* Content-Type has been answered 415.
C3_Witness ==
    \E r \in Requests :
      /\ req[r].ctype = "application/json; charset=utf-8"
      /\ req[r].readOk
      /\ Decoded(req[r]).err = NoErr
      /\ RequiredPresent(Decoded(req[r]).report)
      /\ pc[r] = "UnsupportedMediaType"
      /\ resp[r].status = StatusUnsupportedMediaType

\* C4 as stated: every request with a non-JSON body is answered 400 and
\* writes no point.
C4_Original ==
    \A r \in Requests :
      req[r].body.kind = "invalid" =>
        /\ writes[r] = << >>
        /\ (Done(r) => resp[r].status = StatusBadRequest)

\* C4 amended: every request with Content-Type application/json and a
\* non-JSON body is answered 400, the handler going no further than the
\* decoding; and no request with a non-JSON body, whatever its Content-Type,
\* writes a point.
C4_NonJSONBody ==
    \A r \in Requests :
      req[r].body.kind = "invalid" =>
        /\ writes[r] = << >>
        /\ point[r] = NoPoint
        /\ JSONContentType(req[r]) =>
             /\ pc[r] \in {"idle", "contentType", "readBody", "unmarshal",
                           "BodyReadError", "UnmarshalError"}
             /\ (Done(r) => resp[r].status = StatusBadRequest)

\* C4 witness: a readable non-JSON body with the JSON Content-Type has been
\* answered 400 at the decoding step.
C4_Witness ==
    \E r \in Requests :
      /\ req[r].body.kind = "invalid"
      /\ JSONContentType(req[r])
      /\ req[r].readOk
      /\ pc[r] = "UnmarshalError"
      /\ resp[r].status = StatusBadRequest

\* The traceback as the request carries it: the string of the last
\* traceback member that is a string, "" when there is none.
RECURSIVE WireTraceback(_)
WireTraceback(ms) ==
    IF ms = << >> THEN ""
    ELSE LET m == ms[Len(ms)] IN
         IF FoldKey(m.key) = FieldName("traceback") /\ m.val.t = "string"
         THEN m.val.s
         ELSE WireTraceback(SubSeq(ms, 1, Len(ms) - 1))

\* C5: the point passed to the store for a request has measurement
\* "error_logs", tags exactly service and endpoint with the report's values,
\* the field error with the report's value, and a field traceback equal to
\* the request's traceback exactly when that is present and non-empty.
C5_StoredPoint ==
    \A r \in Requests :
      \A i \in DOMAIN writes[r] :
        LET rep == Decoded(req[r]).report
            tb == WireTraceback(req[r].body.members)
            p == writes[r][i].point IN
        /\ ValidRequest(req[r])
        /\ p.measurement = "error_logs"
        /\ p.tags = [service |-> rep.Service, endpoint |-> rep.Endpoint]
        /\ p.fields = IF tb # ""
                      THEN [error |-> rep.Error, traceback |-> tb]
                      ELSE [error |-> rep.Error]

\* C5 witness: a valid request carrying a traceback has been written.
C5_Witness ==
    \E r \in Requests :
      /\ pc[r] = "OK"
      /\ WireTraceback(req[r].body.members) = "tb"
      /\ writes[r][1].point.fields.traceback = "tb"

\* C2: for a valid request the handler calls the store's write once: a valid
\* request that has a write or a response has exactly one write (never two,
\* and one by the time there is a response); the response is 200 if and only
\* if that call returned no error.
C2_OneWrite ==
    \A r \in Requests :
      (writes[r] # << >> \/ resp[r] # NoResp) /\ ValidRequest(req[r]) =>
        /\ Len(writes[r]) = 1
        /\ resp[r] # NoResp => (resp[r].status = StatusOK <=> writes[r][1].err = NoErr)

\* C2 witness: one valid request has been answered 200 after its write
\* succeeded, another has been answered otherwise after its write failed.
C2_Witness ==
    \E r1, r2 \in Requests :
      /\ ValidRequest(req[r1]) /\ ValidRequest(req[r2])
      /\ Len(writes[r1]) = 1 /\ writes[r1][1].err = NoErr
      /\ resp[r1].status = StatusOK
      /\ Len(writes[r2]) = 1 /\ writes[r2][1].err # NoErr
      /\ resp[r2] # NoResp /\ resp[r2].status # StatusOK

\* C6: two identical valid requests, both written successfully, leave two
\* distinct points with different timestamps in the store.
C6_DistinctPoints ==
    \A r1, r2 \in Requests :
      /\ r1 # r2
      /\ req[r1] = req[r2]
      /\ ValidRequest(req[r1])
      /\ pc[r1] = "OK" /\ pc[r2] = "OK"
      => /\ point[r1].ts # point[r2].ts
         /\ Cardinality(Stored) = 2

\* C7: the route is registered, the server started and requests handled only
\* when all four environment variables are present and the organization
\* lookup has succeeded.
C7_FailFast ==
    (\/ routes # {}
     \/ mainpc \in {"register", "start", "serving"}
     \/ \E r \in Requests : pc[r] # "idle")
    => /\ env = EnvVars
       /\ organizationID # ""

\* C7 witness: the server is serving and a request is being handled.
C7_Witness ==
    /\ mainpc = "serving"
    /\ env = EnvVars
    /\ \E r \in Requests : pc[r] # "idle"

\* C8: a failed write is answered 500 with a body that is the same whatever
\* the store's error was: two identical requests whose writes failed with
\* different errors have the same response; the error is in the log.
C8_GenericError ==
    \A r1 \in Requests :
      pc[r1] = "WriteError" =>
        /\ resp[r1].status = StatusInternalServerError
        /\ log[r1][Len(log[r1])].arg = writes[r1][1].err
        /\ \A r2 \in Requests :
             pc[r2] = "WriteError" /\ req[r2] = req[r1] => resp[r2] = resp[r1]

\* C8 witness: two identical requests have failed with different store errors.
C8_Witness ==
    \E r1, r2 \in Requests :
      /\ req[r1] = req[r2]
      /\ pc[r1] = "WriteError" /\ pc[r2] = "WriteError"
      /\ writes[r1][1].err # writes[r2][1].err

\* The status the response table gives a request, d being what its body
\* decodes to and e what its write, if made, returned.
ExpectedStatus(q, d, e) ==
    IF ~JSONContentType(q) THEN StatusUnsupportedMediaType
    ELSE IF ~q.readOk THEN StatusBadRequest
    ELSE IF d.err # NoErr THEN StatusBadRequest
    ELSE IF ~RequiredPresent(d.report) THEN StatusBadRequest
    ELSE IF e # NoErr THEN StatusInternalServerError
    ELSE StatusOK

\* The point of a report but for its timestamp.
ExpectedPoint(rep, ts) ==
    [measurement |-> "error_logs",
     tags |-> [service |-> rep.Service, endpoint |-> rep.Endpoint],
     fields |-> IF rep.Traceback # ""
                THEN [error |-> rep.Error, traceback |-> rep.Traceback]
                ELSE [error |-> rep.Error],
     ts |-> ts]

\* C9: under every interleaving, a request's status is the one its own
\* Content-Type, body and write outcome give, the point it writes is the one
\* its own body gives (stamped with a reading of the clock), and it makes a
\* write exactly when it is valid: nothing of another request shows in it.
C9_Independent ==
    \A r \in Requests :
      Done(r) \/ writes[r] # << >> =>
        LET d == Decoded(req[r])
            valid == /\ JSONContentType(req[r]) /\ req[r].readOk
                     /\ d.err = NoErr /\ RequiredPresent(d.report)
        IN
        /\ Done(r) =>
             resp[r].status =
               ExpectedStatus(req[r], d, IF writes[r] = << >> THEN NoErr
                                         ELSE writes[r][1].err)
        /\ \A i \in DOMAIN writes[r] :
             /\ valid
             /\ writes[r][i].point = ExpectedPoint(d.report, writes[r][i].point.ts)
        /\ Done(r) /\ valid => writes[r] # << >>

\* C9 witness: two requests with different valid reports have been handled
\* side by side, each has written its own point, and their statuses differ.
C9_Witness ==
    \E r1, r2 \in Requests :
      /\ r1 # r2
      /\ Done(r1) /\ Done(r2)
      /\ writes[r1] # << >> /\ writes[r2] # << >>
      /\ writes[r1][1].point.fields # writes[r2][1].point.fields
      /\ resp[r1].status # resp[r2].status

\* The response of each return statement.
TerminalStatus(t) ==
    CASE t = "OK" -> StatusOK
      [] t = "UnsupportedMediaType" -> StatusUnsupportedMediaType
      [] t = "WriteError" -> StatusInternalServerError
      [] OTHER -> StatusBadRequest

\* C10 as stated: the terminal states are mapped to distinct statuses: two
\* requests ending in different terminal states have different statuses.
C10_Original ==
    \A r1, r2 \in Requests :
      Done(r1) /\ Done(r2) /\ pc[r1] # pc[r2] => resp[r1].status # resp[r2].status

\* C10 amended: a handled request ends in one terminal state: OK, the only
\* one with status 200, or a failure state with its fixed status: 415 for a
\* wrong Content-Type, 500 for a failed write, and 400 alike for an
\* unreadable body, malformed JSON and a missing required field, which only
\* the message tells apart.
C10_TerminalStates ==
    \A r1 \in Requests :
      /\ Done(r1) <=> resp[r1] # NoResp
      /\ Done(r1) =>
           /\ resp[r1].status = TerminalStatus(pc[r1])
           /\ (resp[r1].status = StatusOK <=> pc[r1] = "OK")
           /\ \A r2 \in Requests :
                Done(r2) /\ pc[r2] # pc[r1] => resp[r2].body # resp[r1].body

\* C10 witness: two requests have ended in two different failure states
\* with the same status 400.
C10_Witness ==
    \E r1, r2 \in Requests :
      /\ pc[r1] = "UnmarshalError"
      /\ pc[r2] = "MissingFields"
      /\ resp[r1].status = StatusBadRequest
      /\ resp[r2].status = StatusBadRequest

=============================================================================
